---- MODULE Spec2Model ----
(***************************************************************************)
(* Hybrid retrieval-and-fusion engine of grokalternative (rag.py).         *)
(*                                                                         *)
(* hybrid_answer is a single-pass function of its arguments and of what    *)
(* its collaborators (vector store, graph store) answer.  The state        *)
(* machine below has one call in flight at a time: Call binds the          *)
(* arguments and the collaborators' behaviour, Return / Raise run the      *)
(* body of hybrid_answer to its return statement or to the first uncaught  *)
(* exception, Reset drops the call.                                        *)
(*                                                                         *)
(* The graph store client KG (stores.py) is a second state machine,        *)
(* SpecStores: its methods run against a Neo4j backend that holds          *)
(* relationships and is up, unreachable or failing.                        *)
(*                                                                         *)
(* _request_with_retries (llm.py) is a third one, SpecRetry: a loop of     *)
(* requests and sleeps, one step per request sent and per sleep taken.     *)
(*                                                                         *)
(* select_best_candidate (connectors/sparql.py) is a fourth, SpecSelect:   *)
(* one step per item of the loop.  Terms and labels are sequences of       *)
(* one-character strings, so that strip, lower, startswith, in and len do  *)
(* what they do in Python.                                                 *)
(*                                                                         *)
(* The /chat/stream endpoint (api.py) is a fifth, SpecChat: requests are   *)
(* served concurrently, one step per call of the handler and per item the  *)
(* server pulls from a response's generator.                               *)
(*                                                                         *)
(* Python values are tagged records: [t |-> "None"], [t |-> "str", v],     *)
(* [t |-> "num", v], [t |-> "dict", v] (v a function from keys to values)  *)
(* and [t |-> "list", v].  A raw similarity score is an integer number of  *)
(* arbitrary units (normalisation divides it by the batch maximum); a      *)
(* fusion score is an integer number of ten-thousandths, the resolution    *)
(* of round(score, 4).                                                     *)
(***************************************************************************)
EXTENDS Integers, Sequences, FiniteSets, TLC

VARIABLES pc, args, result, origin, queried, _driver, backend, reply,
          _client, qdrant, rpc, retries, backoff, plan, attempt, log, last_err,
          outcome, spc, term, items, it, best_item, best_score, CHAT_STORE,
          streams

\* the call of hybrid_answer in flight
callvars == <<pc, args, result, origin, queried>>

\* the KG client object, the Neo4j backend behind it, the last reply of a
\* store client, the VS client object, the Qdrant backend behind it
storevars == <<_driver, backend, reply, _client, qdrant>>

\* a call of _request_with_retries in flight (llm.py): its position, its
\* arguments, what the server will do with each request, the loop variable,
\* the requests sent and sleeps taken so far, last_err, what the call gave
retryvars == <<rpc, retries, backoff, plan, attempt, log, last_err, outcome>>

\* a call of select_best_candidate in flight (connectors/sparql.py): its
\* position, its arguments, the number of items the loop has taken, the
\* locals best and best_score
selectvars == <<spc, term, items, it, best_item, best_score>>

\* the in-memory chat store of the API (api.py 202) and the requests to
\* /chat/stream, each with its generator _gen
chatvars == <<CHAT_STORE, streams>>

\* what the actions of one component leave alone
outsideCall == <<storevars, retryvars, selectvars, chatvars>>

outsideStores == <<callvars, retryvars, selectvars, chatvars>>

outsideRetry == <<callvars, storevars, selectvars, chatvars>>

outsideSelect == <<callvars, storevars, retryvars, chatvars>>

outsideChat == <<callvars, storevars, retryvars, selectvars>>

vars == <<callvars, storevars, retryvars, selectvars, chatvars>>

(* ---------------------------------------------------------------------- *)
(* Bounds of the explored inputs                                          *)
(* ---------------------------------------------------------------------- *)
MaxHits == 2

MaxNeighbors == 2

MaxDocs == 2

LongDocs == 11

Dim == 4

DigestLen == 2

(* ---------------------------------------------------------------------- *)
(* Python values                                                          *)
(* ---------------------------------------------------------------------- *)
None == [t |-> "None"]

Str(s) == [t |-> "str", v |-> s]

Num(n) == [t |-> "num", v |-> n]

Dict(f) == [t |-> "dict", v |-> f]

List(s) == [t |-> "list", v |-> s]

EmptyDict == Dict(<<>>)

IsMapping(x) == x.t = "dict"

IsStr(x) == x.t = "str"

\* bool(x)
Truthy(x) ==
    CASE x.t = "None" -> FALSE
      [] x.t = "str" -> x.v # ""
      [] x.t = "num" -> x.v # 0
      [] x.t = "dict" -> DOMAIN x.v # {}
      [] x.t = "list" -> Len(x.v) > 0

\* d.get(k) on a mapping d
Get(d, k) == IF k \in DOMAIN d.v THEN d.v[k] ELSE None

\* a or b
Or(a, b) == IF Truthy(a) THEN a ELSE b

\* str(x) for the values that reach it
PyStr(x) ==
    CASE x.t = "str" -> x.v
      [] x.t = "num" -> ToString(x.v)
      [] x.t = "None" -> "None"
      [] OTHER -> "{}"

(* ---------------------------------------------------------------------- *)
(* Sequence helpers                                                       *)
(* ---------------------------------------------------------------------- *)
\* s[:n]
Take(s, n) == SubSeq(s, 1, IF Len(s) < n THEN Len(s) ELSE n)

SeqsUpTo(S, n) == UNION {[1..k -> S] : k \in 0..n}

Range(s) == {s[i] : i \in DOMAIN s}

(* ---------------------------------------------------------------------- *)
(* Constants of the fusion policy                                         *)
(* ---------------------------------------------------------------------- *)
\* candidate_ids[:3]
CandidateCap == 3

\* web_docs[:10]
DocCap == 10

\* round(score, 4): scores are counted in units of 1 / ScoreScale
ScoreScale == 10000

\* score += 0.1
RankBonus == 1000

\* score += 0.05
TypeBonus == 500

\* kg.neighbors(node_id, limit=10)
NeighborsLimit == 10

(* ---------------------------------------------------------------------- *)
(* Vector side (rag.py 45-71)                                             *)
(* ---------------------------------------------------------------------- *)
\* try: vs.search(...) except Exception: vector_hits = []
VectorHits(search) == IF search.raises THEN <<>> ELSE search.hits

\* hit.get("payload") or {}
PayloadOf(hit) == Or(Get(hit, "payload"), EmptyDict)

\* payload.get("id") or payload.get("entity_id")
CandOf(hit) == Or(Get(PayloadOf(hit), "id"), Get(PayloadOf(hit), "entity_id"))

RECURSIVE CandidatesFrom(_)
CandidatesFrom(hits) ==
    IF hits = <<>> THEN <<>>
    ELSE LET cand == CandOf(Head(hits))
         IN (IF IsStr(cand) THEN <<cand.v>> ELSE <<>>) \o CandidatesFrom(Tail(hits))

\* variant: no fallback to the raw question
CandidateIdsNoFallback(vector_hits, question) == CandidatesFrom(vector_hits)

\* candidate_ids after the fallback to the raw question
CandidateIds(vector_hits, question) ==
    LET found == CandidatesFrom(vector_hits)
    IN IF found = <<>> THEN <<question>> ELSE found

\* h.get("score") or 0.0
ScoreOr0(h) == Or(Get(h, "score"), Num(0))

\* max(...) over values of one type; Python's max keeps the first maximum
RECURSIVE MaxOf(_)
MaxOf(vals) ==
    IF Len(vals) = 1 THEN vals[1]
    ELSE LET m == MaxOf(Tail(vals))
         IN IF vals[1].t = "num" /\ m.v > vals[1].v THEN m ELSE vals[1]

\* best = max((h.get("score") or 0.0) for h in vector_hits) or 1.0
Best(vector_hits) ==
    Or(MaxOf([i \in DOMAIN vector_hits |-> ScoreOr0(vector_hits[i])]), Num(1))

\* str((h.get("payload") or {}).get("id") or "")
PidOf(h) == PyStr(Or(Get(PayloadOf(h), "id"), Str("")))

\* id_to_score: key -> raw / best, kept as the fraction [num, den];
\* a later hit of the same key overwrites an earlier one, a float() that
\* fails leaves the key out
RECURSIVE IdToScoreUpTo(_, _)
IdToScoreUpTo(vector_hits, k) ==
    IF k = 0 THEN <<>>
    ELSE LET m == IdToScoreUpTo(vector_hits, k - 1)
             h == vector_hits[k]
             best == Best(vector_hits)
             key == PidOf(h)
         IN IF ScoreOr0(h).t = "num" /\ best.t = "num"
            THEN [x \in DOMAIN m \cup {key} |->
                     IF x = key THEN [num |-> ScoreOr0(h).v, den |-> best.v]
                     ELSE m[x]]
            ELSE m

IdToScore(vector_hits) == IdToScoreUpTo(vector_hits, Len(vector_hits))

\* hit.get on a hit that is no mapping (line 57), or max() over values of
\* different types (line 65)
RaisesInVectorSide(vector_hits) ==
    IF \E i \in DOMAIN vector_hits : ~IsMapping(vector_hits[i]) THEN TRUE
    ELSE \E i, j \in DOMAIN vector_hits :
             ScoreOr0(vector_hits[i]).t # ScoreOr0(vector_hits[j]).t

(* ---------------------------------------------------------------------- *)
(* Graph side and fusion score (rag.py 73-99)                             *)
(* ---------------------------------------------------------------------- *)
\* round to the nearest integer, ties to even, of n / d (d # 0)
RoundHalfEven(n, d) ==
    LET nn == IF d < 0 THEN -n ELSE n
        dd == IF d < 0 THEN -d ELSE d
        q == nn \div dd
        r == nn % dd
    IN IF 2 * r < dd THEN q
       ELSE IF 2 * r > dd THEN q + 1
       ELSE IF q % 2 = 0 THEN q ELSE q + 1

\* try: kg.neighbors(node_id, limit=10) except Exception: neighbors = []
Neighbors(graph, node_id) ==
    IF node_id \in DOMAIN graph
    THEN (IF graph[node_id].raises THEN <<>> ELSE graph[node_id].records)
    ELSE <<>>

\* variant: the preferred-rank bonus is 0.2
BonusDoubledRank(metaval) ==
    LET meta == Or(metaval, EmptyDict)
    IN IF ~IsMapping(meta) THEN 0
       ELSE (IF Or(Get(meta, "rank"), Str("")) = Str("preferred") THEN 2 * RankBonus ELSE 0)
          + (IF Or(Get(meta, "pred_code"), Str("")) \in {Str("P31"), Str("P279")}
             THEN TypeBonus ELSE 0)

\* the two bonuses; meta.get on a meta that is no mapping raises inside
\* the try and leaves the score without bonus
Bonus(metaval) ==
    LET meta == Or(metaval, EmptyDict)
    IN IF ~IsMapping(meta) THEN 0
       ELSE (IF Or(Get(meta, "rank"), Str("")) = Str("preferred") THEN RankBonus ELSE 0)
          + (IF Or(Get(meta, "pred_code"), Str("")) \in {Str("P31"), Str("P279")}
             THEN TypeBonus ELSE 0)

\* float(id_to_score.get(node_id, 0.0)) as a fraction
VectorScore(id_to_score, node_id) ==
    IF node_id \in DOMAIN id_to_score THEN id_to_score[node_id]
    ELSE [num |-> 0, den |-> 1]

\* rec["score"] = round(score, 4), in units of 1 / ScoreScale
FusionScore(id_to_score, node_id, metaval) ==
    LET f == VectorScore(id_to_score, node_id)
    IN RoundHalfEven(ScoreScale * f.num + Bonus(metaval) * f.den, f.den)

\* rec of one neighbour n
Rec(id_to_score, node_id, n) ==
    [subject |-> Get(n, "s"),
     predicate |-> Get(n, "p"),
     object |-> Get(n, "o"),
     meta |-> Get(n, "meta"),
     score |-> FusionScore(id_to_score, node_id, Get(n, "meta"))]

RecsOf(id_to_score, node_id, neighbors) ==
    [i \in DOMAIN neighbors |-> Rec(id_to_score, node_id, neighbors[i])]

\* variant: the loop over the candidates ends at the first lookup that raises
RECURSIVE FactsFromStopAtFailure(_, _, _)
FactsFromStopAtFailure(graph, id_to_score, ids) ==
    IF ids = <<>> THEN <<>>
    ELSE IF Head(ids) \in DOMAIN graph /\ graph[Head(ids)].raises THEN <<>>
    ELSE RecsOf(id_to_score, Head(ids), Neighbors(graph, Head(ids)))
         \o FactsFromStopAtFailure(graph, id_to_score, Tail(ids))

\* for node_id in candidate_ids[:3]: ... facts.append(rec)
RECURSIVE FactsFrom(_, _, _)
FactsFrom(graph, id_to_score, ids) ==
    IF ids = <<>> THEN <<>>
    ELSE RecsOf(id_to_score, Head(ids), Neighbors(graph, Head(ids)))
         \o FactsFrom(graph, id_to_score, Tail(ids))

Facts(graph, id_to_score, candidate_ids) ==
    FactsFrom(graph, id_to_score, Take(candidate_ids, CandidateCap))

\* variant: kg.neighbors is called outside any try
RaisesInGraphSideUncaught(graph, candidate_ids) ==
    \E c \in Range(Take(candidate_ids, CandidateCap)) :
        IF c \in DOMAIN graph /\ graph[c].raises THEN TRUE
        ELSE \E n \in Range(Neighbors(graph, c)) : ~IsMapping(n)

\* n.get on a neighbour that is no mapping (line 80)
RaisesInGraphSide(graph, candidate_ids) ==
    \E c \in Range(Take(candidate_ids, CandidateCap)) :
        \E n \in Range(Neighbors(graph, c)) : ~IsMapping(n)

\* variant: reverse=True forgotten
RECURSIVE InsertAsc(_, _)
InsertAsc(sorted, rec) ==
    IF sorted = <<>> THEN <<rec>>
    ELSE IF Head(sorted).score <= rec.score
         THEN <<Head(sorted)>> \o InsertAsc(Tail(sorted), rec)
         ELSE <<rec>> \o sorted

\* variant: a fact goes in front of the facts of equal score
RECURSIVE InsertDescUnstable(_, _)
InsertDescUnstable(sorted, rec) ==
    IF sorted = <<>> THEN <<rec>>
    ELSE IF Head(sorted).score > rec.score
         THEN <<Head(sorted)>> \o InsertDescUnstable(Tail(sorted), rec)
         ELSE <<rec>> \o sorted

\* sorted(facts, key=score, reverse=True): stable, descending
RECURSIVE InsertDesc(_, _)
InsertDesc(sorted, rec) ==
    IF sorted = <<>> THEN <<rec>>
    ELSE IF Head(sorted).score >= rec.score
         THEN <<Head(sorted)>> \o InsertDesc(Tail(sorted), rec)
         ELSE <<rec>> \o sorted

RECURSIVE SortedUpTo(_, _)
SortedUpTo(facts, k) ==
    IF k = 0 THEN <<>> ELSE InsertDesc(SortedUpTo(facts, k - 1), facts[k])

FactsSorted(facts) == SortedUpTo(facts, Len(facts))

\* the candidate each fact of Facts was expanded from, in the same order
RECURSIVE FactNodesFrom(_, _)
FactNodesFrom(graph, ids) ==
    IF ids = <<>> THEN <<>>
    ELSE [i \in DOMAIN Neighbors(graph, Head(ids)) |-> Head(ids)]
         \o FactNodesFrom(graph, Tail(ids))

FactNodes(graph, candidate_ids) ==
    FactNodesFrom(graph, Take(candidate_ids, CandidateCap))

(* ---------------------------------------------------------------------- *)
(* Sources and confidence (rag.py 101-119)                                *)
(* ---------------------------------------------------------------------- *)
\* variant: every supplied document is taken
DocsUncapped(web_docs) == IF Truthy(web_docs) THEN web_docs.v ELSE <<>>

\* docs: every d of web_docs[:10] is appended before d.get is tried
Docs(web_docs) == IF Truthy(web_docs) THEN Take(web_docs.v, DocCap) ELSE <<>>

Source(d) ==
    [url |-> Get(d, "url"),
     title |-> Or(Get(d, "title"), Get(d, "url")),
     engine |-> Get(d, "engine")]

\* variant: a document without url is skipped
RECURSIVE SourcesFromWithUrl(_)
SourcesFromWithUrl(docs) ==
    IF docs = <<>> THEN <<>>
    ELSE (IF IsMapping(Head(docs)) /\ Truthy(Get(Head(docs), "url"))
          THEN <<Source(Head(docs))>> ELSE <<>>)
         \o SourcesFromWithUrl(Tail(docs))

\* sources: a d whose d.get raises is skipped (except Exception: continue)
RECURSIVE SourcesFrom(_)
SourcesFrom(docs) ==
    IF docs = <<>> THEN <<>>
    ELSE (IF IsMapping(Head(docs)) THEN <<Source(Head(docs))>> ELSE <<>>)
         \o SourcesFrom(Tail(docs))

Sources(web_docs) == SourcesFrom(Docs(web_docs))

\* variant: thresholds one too low
ConfidenceOffByOne(sources) ==
    IF Len(sources) >= 2 THEN "high"
    ELSE IF Len(sources) = 1 THEN "medium"
    ELSE "low"

Confidence(sources) ==
    IF Len(sources) >= 3 THEN "high"
    ELSE IF Len(sources) = 2 THEN "medium"
    ELSE "low"

(* ---------------------------------------------------------------------- *)
(* Embedder (embeddings.py 31-44)                                         *)
(* ---------------------------------------------------------------------- *)
\* values a digest position takes (a byte in the source)
DigestBase == 4

\* stand-in for hashlib.sha256(text).digest(): a deterministic function of
\* the text giving DigestLen values below DigestBase
Digest(text) ==
    [i \in 1..DigestLen |-> ((Len(text) + i - 1) \div (DigestBase ^ (i - 1))) % DigestBase]

SumSq(arr) ==
    LET RECURSIVE S(_)
        S(k) == IF k = 0 THEN 0 ELSE arr[k] * arr[k] + S(k - 1)
    IN S(Len(arr))

Dot(a, b) ==
    LET n == IF Len(a) < Len(b) THEN Len(a) ELSE Len(b)
        RECURSIVE S(_)
        S(k) == IF k = 0 THEN 0 ELSE a[k] * b[k] + S(k - 1)
    IN S(n)

\* embed(text): values = list(h) * (dim // len(h) + 1); arr = values[:dim];
\* the vector is arr / sqrt(nsq) with nsq = sum of squares, or 1 when that
\* sum is 0
embed(text) ==
    LET h == Digest(text)
        arr == [i \in 1..Dim |-> h[((i - 1) % DigestLen) + 1]]
    IN [arr |-> arr, nsq |-> IF SumSq(arr) = 0 THEN 1 ELSE SumSq(arr)]

(* ---------------------------------------------------------------------- *)
(* Per-claim citation (rag.py 121-165)                                    *)
(* ---------------------------------------------------------------------- *)
\* " ".join(str(d.get(k) or "") for k in ("title", "summary", "text"))
DocText(d) ==
    PyStr(Or(Get(d, "title"), Str(""))) \o " "
    \o PyStr(Or(Get(d, "summary"), Str(""))) \o " "
    \o PyStr(Or(Get(d, "text"), Str("")))

RECURSIVE Join(_, _)
Join(sep, parts) ==
    IF parts = <<>> THEN ""
    ELSE IF Len(parts) = 1 THEN parts[1]
    ELSE parts[1] \o sep \o Join(sep, Tail(parts))

\* " | ".join(x for x in [s, p, o, ol] if isinstance(x, str) and x)
Claim(rec) ==
    LET m == Or(rec.meta, EmptyDict)
        xs == <<rec.subject, rec.predicate, rec.object, Get(m, "object_label")>>
        keep == SelectSeq(xs, LAMBDA x : IsStr(x) /\ Truthy(x))
    IN Join(" | ", [i \in DOMAIN keep |-> keep[i].v])

\* _cos(a, b) of two embed() vectors, as the fraction num / sqrt(densq):
\* the norms da, db of the normalised vectors are 1 (or floored to 1)
_cos(a, b) == [num |-> Dot(a.arr, b.arr), densq |-> a.nsq * b.nsq]

\* variant: the dot products are compared, the norms left out
CosGreaterUnnormalised(sc, best_sc) == sc.num > best_sc.num

\* sc > best_sc
CosGreater(sc, best_sc) ==
    IF best_sc.num < 0 THEN sc.num >= 0
    ELSE sc.num * sc.num * best_sc.densq > best_sc.num * best_sc.num * sc.densq

\* variant: sc >= best_sc, the last of several maxima wins
RECURSIVE BestUpToLastMax(_, _, _)
BestUpToLastMax(qv, doc_vecs, k) ==
    IF k = 0 THEN [best_idx |-> -1, best_sc |-> [num |-> -1, densq |-> 1]]
    ELSE LET b == BestUpToLastMax(qv, doc_vecs, k - 1)
             sc == _cos(qv, doc_vecs[k])
         IN IF b.best_idx = -1 THEN [best_idx |-> k - 1, best_sc |-> sc]
            ELSE IF ~CosGreater(b.best_sc, sc) THEN [best_idx |-> k - 1, best_sc |-> sc]
            ELSE b

\* the loop over enumerate(doc_vecs): [best_idx, best_sc] after the first k
\* documents, best_idx = -1 standing for None, best_sc starting at -1.0
RECURSIVE BestUpTo(_, _, _)
BestUpTo(qv, doc_vecs, k) ==
    IF k = 0 THEN [best_idx |-> -1, best_sc |-> [num |-> -1, densq |-> 1]]
    ELSE LET b == BestUpTo(qv, doc_vecs, k - 1)
             sc == _cos(qv, doc_vecs[k])
         IN IF CosGreater(sc, b.best_sc)
            THEN [best_idx |-> k - 1, best_sc |-> sc]
            ELSE b

\* variant: the 0-based best_idx is stored
CitedZeroBased(rec, doc_vecs, sources) ==
    LET b == BestUpTo(embed(Claim(rec)), doc_vecs, Len(doc_vecs))
    IN IF b.best_idx # -1 THEN rec @@ ("citations" :> <<b.best_idx>>)
       ELSE IF sources # <<>> THEN rec @@ ("citations" :> <<1>>)
       ELSE rec

\* rec["citations"] = [best_idx + 1], or [1] when best_idx is None
Cited(rec, doc_vecs, sources) ==
    LET b == BestUpTo(embed(Claim(rec)), doc_vecs, Len(doc_vecs))
    IN IF b.best_idx # -1 THEN rec @@ ("citations" :> <<b.best_idx + 1>>)
       ELSE IF sources # <<>> THEN rec @@ ("citations" :> <<1>>)
       ELSE rec

\* variant: every fact gets citations, [1] when nothing was attributed
WithCitationsDefaultFirst(facts_sorted, sources, docs) ==
    IF sources # <<>> /\ facts_sorted # <<>> /\ docs # <<>>
    THEN LET doc_vecs == [i \in DOMAIN docs |-> embed(DocText(docs[i]))]
         IN [i \in DOMAIN facts_sorted |-> Cited(facts_sorted[i], doc_vecs, sources)]
    ELSE [i \in DOMAIN facts_sorted |-> facts_sorted[i] @@ ("citations" :> <<1>>)]

\* if sources and facts_sorted and docs: ...
WithCitations(facts_sorted, sources, docs) ==
    IF sources # <<>> /\ facts_sorted # <<>> /\ docs # <<>>
    THEN LET doc_vecs == [i \in DOMAIN docs |-> embed(DocText(docs[i]))]
         IN [i \in DOMAIN facts_sorted |-> Cited(facts_sorted[i], doc_vecs, sources)]
    ELSE facts_sorted

\* d.get on a document that is no mapping (line 125), m.get on a meta that
\* is no mapping (line 147)
RaisesInCitation(facts_sorted, sources, docs) ==
    IF sources # <<>> /\ facts_sorted # <<>> /\ docs # <<>>
    THEN (IF \E d \in Range(docs) : ~IsMapping(d) THEN TRUE
          ELSE \E rec \in Range(facts_sorted) : ~IsMapping(Or(rec.meta, EmptyDict)))
    ELSE FALSE

(* ---------------------------------------------------------------------- *)
(* Answer composer (rag.py 167-185)                                       *)
(* ---------------------------------------------------------------------- *)
Lead(tone) ==
    IF tone = "executive" THEN "Executive summary"
    ELSE IF tone = "humorous" THEN "Quick take (with a wink)"
    ELSE "Summary"

Aud(audience) ==
    IF audience = "general" THEN "for a general audience"
    ELSE IF audience = "non-technical" THEN "for non-technical readers"
    ELSE "for experts"

Tf(timeframe) ==
    IF timeframe = 0 THEN "all time" ELSE "last " \o ToString(timeframe) \o " days"

RECURSIVE Markers(_)
Markers(n) == IF n = 0 THEN "" ELSE Markers(n - 1) \o "[" \o ToString(n) \o "]"

Fn(sources) ==
    IF sources = <<>> THEN ""
    ELSE " " \o Markers(IF Len(sources) < 3 THEN Len(sources) ELSE 3)

\* variant: the extra sentence only above 400
ExtraAbove(length) ==
    IF length <= 400 THEN "" ELSE " Additional detail included per requested length."

Extra(length) ==
    IF length < 400 THEN "" ELSE " Additional detail included per requested length."

AnswerText(a, facts_sorted, vector_hits, sources) ==
    Lead(a.tone) \o " " \o Aud(a.audience) \o " (" \o Tf(a.timeframe) \o "): "
    \o ToString(Len(facts_sorted)) \o " graph facts fused with "
    \o ToString(Len(vector_hits)) \o " vector hits." \o Extra(a.length) \o Fn(sources)

(* ---------------------------------------------------------------------- *)
(* hybrid_answer (rag.py 29-194)                                          *)
(* ---------------------------------------------------------------------- *)
\* the facts in encounter order, each with the candidate it came from
Encountered(a) ==
    LET vector_hits == VectorHits(a.search)
        candidate_ids == CandidateIds(vector_hits, a.question)
        facts == Facts(a.graph, IdToScore(vector_hits), candidate_ids)
        nodes == FactNodes(a.graph, candidate_ids)
    IN [i \in DOMAIN facts |-> facts[i] @@ [pos |-> i, node |-> nodes[i]]]

\* an exception leaves hybrid_answer
Raises(a) ==
    LET vector_hits == VectorHits(a.search)
        candidate_ids == CandidateIds(vector_hits, a.question)
    IN IF RaisesInVectorSide(vector_hits) THEN TRUE
       ELSE IF RaisesInGraphSide(a.graph, candidate_ids) THEN TRUE
       ELSE RaisesInCitation(
                FactsSorted(Facts(a.graph, IdToScore(vector_hits), candidate_ids)),
                Sources(a.web_docs), Docs(a.web_docs))

\* variant: every candidate is looked up
QueriedUncapped(a) ==
    LET vector_hits == VectorHits(a.search)
        ids == CandidateIds(vector_hits, a.question)
        failing == {k \in DOMAIN ids :
                       \E n \in Range(Neighbors(a.graph, ids[k])) : ~IsMapping(n)}
    IN IF RaisesInVectorSide(vector_hits) THEN <<>>
       ELSE IF failing = {} THEN ids
       ELSE Take(ids, CHOOSE k \in failing : \A m \in failing : k <= m)

\* the node ids kg.neighbors is called with, in call order, up to the first
\* exception that leaves the loop over candidate_ids[:3]
Queried(a) ==
    LET vector_hits == VectorHits(a.search)
        ids == Take(CandidateIds(vector_hits, a.question), CandidateCap)
        failing == {k \in DOMAIN ids :
                       \E n \in Range(Neighbors(a.graph, ids[k])) : ~IsMapping(n)}
    IN IF RaisesInVectorSide(vector_hits) THEN <<>>
       ELSE IF failing = {} THEN ids
       ELSE Take(ids, CHOOSE k \in failing : \A m \in failing : k <= m)

\* the returned dict
HybridAnswer(a) ==
    LET vector_hits == VectorHits(a.search)
        candidate_ids == CandidateIds(vector_hits, a.question)
        id_to_score == IdToScore(vector_hits)
        facts == Facts(a.graph, id_to_score, candidate_ids)
        sources == Sources(a.web_docs)
        facts_sorted == WithCitations(FactsSorted(facts), sources, Docs(a.web_docs))
    IN [answer |-> AnswerText(a, facts_sorted, vector_hits, sources),
        facts |-> facts_sorted,
        vector_hits |-> vector_hits,
        selected_entities |-> candidate_ids,
        sources |-> sources,
        confidence |-> Confidence(sources)]

(* ---------------------------------------------------------------------- *)
(* What the collaborators may answer                                      *)
(* ---------------------------------------------------------------------- *)
Entities == {"E1", "E2"}

Questions == {"E1", "what is E1"}

\* a hit of VS.search: {"id", "score", "payload"} (stores.py 170-174)
Hit(payload, score) == Dict([id |-> Num(7), score |-> score, payload |-> payload])

IdPayload(e) == Dict([id |-> Str(e), label |-> Str("label of " \o e)])

EntityIdPayload(e) == Dict([entity_id |-> Str(e)])

\* hits whose fields are present or absent (score None, payload {} or
\* without id)
WellFormedHits ==
    {Hit(IdPayload("E1"), Num(3)),
     Hit(IdPayload("E1"), Num(2)),
     Hit(IdPayload("E2"), Num(2)),
     Hit(IdPayload("E2"), Num(-1)),
     Hit(IdPayload("E2"), None),
     Hit(EntityIdPayload("E2"), Num(3)),
     Hit(EmptyDict, None)}

\* a hit whose score is no number, a hit that is no mapping
MalformedHits == {Hit(IdPayload("E1"), Str("abc")), Str("hit")}

Searches(hitSet, n) ==
    {[raises |-> TRUE, hits |-> <<>>]}
    \cup {[raises |-> FALSE, hits |-> h] : h \in SeqsUpTo(hitSet, n)}

\* a record of KG.neighbors: s, p, o, meta (stores.py 40-47)
Triple(s, p, o, meta) == Dict([s |-> Str(s), p |-> Str(p), o |-> Str(o), meta |-> meta])

RecType(e) ==
    Triple(e, "instance of", "E5",
           Dict([object_label |-> Str("human"), rank |-> Str("preferred"),
                 pred_code |-> Str("P31")]))

RecEducated(e) ==
    Triple(e, "educated at", "E2",
           Dict([object_label |-> Str("Some University"), rank |-> Str("normal")]))

RecSubclass(e) == Triple(e, "subclass of", "E7", Dict([pred_code |-> Str("P279")]))

WellFormedRecords(e) == {RecType(e), RecEducated(e), RecSubclass(e), EmptyDict}

\* a record whose meta is no mapping, a record that is no mapping
MalformedRecords(e) == {Triple(e, "instance of", "E5", Str("meta")), Str("record")}

Responses(recordSet, n) ==
    {[raises |-> TRUE, records |-> <<>>]}
    \cup {[raises |-> FALSE, records |-> r] : r \in SeqsUpTo(recordSet, n)}

NoNode == [raises |-> FALSE, records |-> <<>>]

\* a web document: url, title?, summary?, text?, engine?
Doc(url, title, summary, text) ==
    Dict([url |-> Str(url), title |-> Str(title), summary |-> Str(summary),
          text |-> Str(text)])

DocHuman == Doc("https://example.com/a", "Human", "E1 is a human", "human")

DocEducation ==
    Doc("https://example.com/b", "Education", "Some University",
        "educated at Some University")

DocUrlOnly == Dict([url |-> Str("https://example.com/c"), engine |-> Str("httpx")])

WellFormedDocs == {DocHuman, DocEducation, DocUrlOnly, EmptyDict}

MalformedDocs == {Str("document")}

\* a list of n documents cycling through three of them
CycleDocs(n) ==
    [i \in 1..n |-> CASE i % 3 = 1 -> DocHuman
                      [] i % 3 = 2 -> DocEducation
                      [] OTHER -> DocUrlOnly]

WebDocs ==
    {None}
    \cup {List(d) : d \in SeqsUpTo(WellFormedDocs, MaxDocs)}
    \cup {List(CycleDocs(n)) : n \in {3, 4, DocCap, LongDocs}}

DefaultStyle == [tone |-> "neutral", length |-> 300, audience |-> "general", timeframe |-> 90]

CallArgs(question, search, graph, web_docs, style) ==
    [question |-> question, search |-> search, graph |-> graph,
     web_docs |-> web_docs, tone |-> style.tone, length |-> style.length,
     audience |-> style.audience, timeframe |-> style.timeframe]

\* a few neighbourhoods of an entity
SomeResponses(e) ==
    {[raises |-> TRUE, records |-> <<>>],
     NoNode,
     [raises |-> FALSE, records |-> <<RecEducated(e), RecType(e)>>],
     [raises |-> FALSE, records |-> <<RecSubclass(e)>>]}

\* a few answers of the vector search
SomeSearches ==
    {[raises |-> TRUE, hits |-> <<>>],
     [raises |-> FALSE, hits |-> <<>>],
     [raises |-> FALSE,
      hits |-> <<Hit(IdPayload("E1"), Num(2)), Hit(IdPayload("E2"), Num(3))>>],
     [raises |-> FALSE,
      hits |-> <<Hit(IdPayload("E2"), Num(2)), Hit(IdPayload("E1"), Num(3))>>],
     [raises |-> FALSE,
      hits |-> <<Hit(IdPayload("E1"), Num(3)), Hit(IdPayload("E2"), Num(-1))>>]}

\* any vector hits, a few neighbourhoods of both entities
FusionArgs ==
    {CallArgs("E1", s, [E1 |-> g1, E2 |-> g2], None, DefaultStyle) :
        s \in Searches(WellFormedHits, MaxHits),
        g1 \in SomeResponses("E1"),
        g2 \in SomeResponses("E2")}

\* a few vector hits, any neighbourhoods of both entities
GraphArgs ==
    {CallArgs("E1", s, [E1 |-> g1, E2 |-> g2], None, DefaultStyle) :
        s \in SomeSearches,
        g1 \in Responses(WellFormedRecords("E1"), MaxNeighbors),
        g2 \in Responses(WellFormedRecords("E2"), MaxNeighbors)}

\* degraded mode: no vector hit, the question is looked up as a node id
CitationArgs ==
    {CallArgs(q, s, [E1 |-> g1, E2 |-> NoNode], w, DefaultStyle) :
        q \in Questions,
        s \in Searches(WellFormedHits, 0),
        g1 \in Responses(WellFormedRecords("E1"), MaxNeighbors),
        w \in WebDocs}

\* values of the wrong type
MalformedArgs ==
    {CallArgs("E1", s, [E1 |-> g1, E2 |-> NoNode], w, DefaultStyle) :
        s \in Searches(MalformedHits \cup {Hit(IdPayload("E1"), Num(3))}, MaxHits),
        g1 \in Responses(MalformedRecords("E1") \cup {EmptyDict}, 1),
        w \in {None} \cup {List(d) : d \in SeqsUpTo(MalformedDocs \cup {DocHuman}, MaxDocs)}}

\* hits, records and documents that lack fields
SparseArgs ==
    {CallArgs("E1", s, [E1 |-> g1, E2 |-> NoNode], w, DefaultStyle) :
        s \in Searches({Hit(EmptyDict, None), Hit(IdPayload("E1"), None),
                        Hit(IdPayload("E1"), Num(3))}, MaxHits),
        g1 \in Responses({EmptyDict, Dict([s |-> Str("E1"), meta |-> EmptyDict])},
                         MaxNeighbors),
        w \in {List(d) : d \in SeqsUpTo({EmptyDict, DocUrlOnly}, MaxDocs)}}

\* the style parameters of a caller: known and unknown tones and
\* audiences, timeframe 0 and positive, lengths around 400
Styles ==
    [tone : {"executive", "humorous", "neutral", "formal"},
     audience : {"general", "non-technical", "expert"},
     timeframe : {0, 7, 90},
     length : {300, 399, 400, 450}]

\* every style, with no or a few hits, facts and documents
StyleArgs ==
    {CallArgs("E1", s, [E1 |-> g1, E2 |-> NoNode], w, style) :
        s \in {[raises |-> TRUE, hits |-> <<>>],
                [raises |-> FALSE,
                 hits |-> <<Hit(IdPayload("E1"), Num(3)), Hit(IdPayload("E2"), Num(2))>>]},
        g1 \in {NoNode, [raises |-> FALSE, records |-> <<RecEducated("E1"), RecType("E1")>>]},
        w \in {None, List(<<DocHuman>>), List(CycleDocs(3)), List(CycleDocs(4))},
        style \in Styles}

\* the payload of an alias point of an entity (api.py 714)
AliasPayload(e) == Dict([id |-> Str(e), alias |-> Str("alias of " \o e), is_alias |-> TRUE])

\* n distinct records of an entity
ManyRecords(e, n) ==
    [raises |-> FALSE,
     records |-> [k \in 1..n |-> Triple(e, "related to", "O" \o ToString(k), EmptyDict)]]

\* more hits than candidates are expanded: four entities in two orders,
\* and an entity found by its label point and by an alias point
FanOutSearches ==
    {[raises |-> FALSE,
      hits |-> <<Hit(IdPayload("E1"), Num(4)), Hit(IdPayload("E2"), Num(3)),
                 Hit(IdPayload("E3"), Num(2)), Hit(IdPayload("E4"), Num(1))>>],
     [raises |-> FALSE,
      hits |-> <<Hit(IdPayload("E4"), Num(4)), Hit(IdPayload("E3"), Num(3)),
                 Hit(IdPayload("E2"), Num(2)), Hit(IdPayload("E1"), Num(1))>>],
     [raises |-> FALSE,
      hits |-> <<Hit(IdPayload("E1"), Num(4)), Hit(AliasPayload("E1"), Num(3)),
                 Hit(IdPayload("E2"), Num(2)), Hit(IdPayload("E3"), Num(1)),
                 Hit(IdPayload("E4"), Num(1))>>]}

\* neighbourhoods of one record, of as many records as the limit asks for,
\* and of one more (a store that does not apply the limit)
FanOutArgs ==
    {CallArgs("E1", s, [E1 |-> g1, E2 |-> g2, E3 |-> g3, E4 |-> ManyRecords("E4", 2)],
              None, DefaultStyle) :
        s \in FanOutSearches,
        g1 \in {ManyRecords("E1", n) : n \in {1, NeighborsLimit, NeighborsLimit + 1}},
        g2 \in {[raises |-> TRUE, records |-> <<>>], ManyRecords("E2", NeighborsLimit)},
        g3 \in {NoNode, ManyRecords("E3", NeighborsLimit)}}

(* ---------------------------------------------------------------------- *)
(* Graph store client KG (stores.py 13-47)                                *)
(* ---------------------------------------------------------------------- *)
\* the backend answers, cannot be reached, or fails the session or query
BackendStatuses == {"up", "unreachable", "failing"}

\* the exception the neo4j driver raises from session() / run()
ErrorOf(status) ==
    IF status = "unreachable" THEN "ServiceUnavailable"
    ELSE IF status = "failing" THEN "Neo4jError"
    ELSE ""

\* (s, pred, o) of the relationships a caller may upsert
RelKeys == {<<"E1", "instance of", "E5">>, <<"E1", "educated at", "E2">>}

\* the meta a caller may pass to upsert_triple (None reads as {})
Metas == {None, Dict([rank |-> Str("preferred")])}

NodeIds == {"E1", "what is E1"}

\* limit=10 of the callers, and a limit that cuts
Limits == {1, 10}

Offsets == {0, 1}

\* SET r += $meta on the properties of r
Merged(props, meta) ==
    [k \in DOMAIN props \cup DOMAIN meta |-> IF k \in DOMAIN meta THEN meta[k] ELSE props[k]]

\* MERGE (s)-[r:REL {pred:$p}]->(o) SET r += $meta
Upserted(rels, key, meta) ==
    LET old == IF key \in DOMAIN rels THEN rels[key] ELSE [pred |-> Str(key[2])]
    IN [k \in DOMAIN rels \cup {key} |->
           IF k = key THEN Merged(old, Or(meta, EmptyDict).v) ELSE rels[k]]

\* MATCH (s:Entity {id:$id})-[r:REL]->(o:Entity)
Matching(rels, node_id) == {k \in DOMAIN rels : k[1] = node_id}

\* the orders the backend may return the matches in (the query has no
\* ORDER BY)
Orderings(S) ==
    {f \in [1..Cardinality(S) -> S] : \A i, j \in 1..Cardinality(S) : i # j => f[i] # f[j]}

\* RETURN s.id AS s, r.pred AS p, o.id AS o, r AS meta; dict(record)
Record(rels, k) ==
    Dict([s |-> Str(k[1]), p |-> rels[k].pred, o |-> Str(k[3]), meta |-> Dict(rels[k])])

\* SKIP $offset LIMIT $limit
Page(rows, limit, offset) ==
    SubSeq(rows, offset + 1, IF Len(rows) < offset + limit THEN Len(rows) ELSE offset + limit)

NoReply == [op |-> "", during |-> "up", raises |-> FALSE, error |-> "", value |-> <<>>]

\* KG.neighbors: self.driver creates the driver on first use; session()
\* and run() raise when the backend does not answer, and nothing catches
\* it; otherwise the page of records is returned
neighbors(node_id, limit, offset) ==
    /\ _driver' = "driver"
    /\ IF backend.status = "up"
       THEN \E rows \in Orderings(Matching(backend.rels, node_id)) :
                reply' = [op |-> "neighbors", during |-> backend.status,
                          raises |-> FALSE, error |-> "",
                          value |-> Page([i \in DOMAIN rows |-> Record(backend.rels, rows[i])],
                                         limit, offset)]
       ELSE reply' = [op |-> "neighbors", during |-> backend.status,
                      raises |-> TRUE, error |-> ErrorOf(backend.status),
                      value |-> <<>>]
    /\ UNCHANGED <<backend, _client, qdrant>>
    /\ UNCHANGED outsideStores

\* KG.upsert_triple: the same session and run, nothing caught
upsert_triple(s, p, o, meta) ==
    /\ _driver' = "driver"
    /\ IF backend.status = "up"
       THEN /\ backend' = [backend EXCEPT !.rels = Upserted(@, <<s, p, o>>, meta)]
            /\ reply' = [op |-> "upsert_triple", during |-> backend.status,
                         raises |-> FALSE, error |-> "", value |-> <<>>]
       ELSE /\ backend' = backend
            /\ reply' = [op |-> "upsert_triple", during |-> backend.status,
                         raises |-> TRUE, error |-> ErrorOf(backend.status),
                         value |-> <<>>]
    /\ UNCHANGED <<_client, qdrant>>
    /\ UNCHANGED outsideStores

\* the backend goes down, starts failing, or comes back
BackendChanges ==
    /\ \E st \in BackendStatuses \ {backend.status} :
           backend' = [backend EXCEPT !.status = st]
    /\ UNCHANGED <<_driver, reply, _client, qdrant>>
    /\ UNCHANGED outsideStores

(* ---------------------------------------------------------------------- *)
(* Vector store client VS (stores.py 129-175)                             *)
(* ---------------------------------------------------------------------- *)
\* the backend answers every request, none, or some of them
QdrantStatuses == {"up", "unreachable", "flaky"}

\* a request fails: always when unreachable, by chance when flaky
Fails(status, chance) == status = "unreachable" \/ (status = "flaky" /\ chance)

\* the points _index_single upserts: an entity's label point and an alias
\* point carrying the same payload id (api.py 690-715)
Points ==
    {[point_id |-> "E1", text |-> "E1", payload |-> IdPayload("E1")],
     [point_id |-> "E1#alias", text |-> "Alpha",
      payload |-> Dict([id |-> Str("E1"), alias |-> Str("Alpha")])]}

\* ensure_collection: get_collection answers when the collection exists;
\* on any exception recreate_collection drops the collection and creates
\* it empty, and its own exception propagates
EnsureCollection(q, name, dim, getFails, recreateFails) ==
    IF ~Fails(q.status, getFails) /\ name \in DOMAIN q.collections
    THEN [raises |-> FALSE, collections |-> q.collections]
    ELSE IF Fails(q.status, recreateFails)
    THEN [raises |-> TRUE, collections |-> q.collections]
    ELSE [raises |-> FALSE,
          collections |-> [n \in DOMAIN q.collections \cup {name} |->
                              IF n = name THEN [size |-> dim, points |-> <<>>]
                              ELSE q.collections[n]]]

\* {"id", "score", "payload"} of a scored point; the score is the cosine
\* of the query vector and the point's vector
ScoredPoint(points, pid, vector) ==
    [id |-> pid, score |-> _cos(vector, points[pid].vector), payload |-> points[pid].payload]

\* client.search: the points by descending score, limit top_k
SearchResults(points, vector, top_k) ==
    {Take([i \in DOMAIN o |-> ScoredPoint(points, o[i], vector)], top_k) :
        o \in {f \in Orderings(DOMAIN points) :
                   \A i, j \in DOMAIN f :
                       i < j => ~CosGreater(_cos(vector, points[f[j]].vector),
                                            _cos(vector, points[f[i]].vector))}}

\* VS.search: ensure_collection, then client.search giving hits; nothing is
\* caught
VSSearch(q, collection, getFails, recreateFails, searchFails, hits) ==
    LET e == EnsureCollection(q, collection, Dim, getFails, recreateFails)
    IN IF e.raises THEN [raises |-> TRUE, collections |-> e.collections, value |-> <<>>]
       ELSE IF Fails(q.status, searchFails)
       THEN [raises |-> TRUE, collections |-> e.collections, value |-> <<>>]
       ELSE [raises |-> FALSE, collections |-> e.collections, value |-> hits]

\* VS.upsert_point: ensure_collection, then client.upsert; nothing is caught
upsert_point(collection, point, getFails, recreateFails, upsertFails) ==
    LET e == EnsureCollection(qdrant, collection, Dim, getFails, recreateFails)
        stored == [vector |-> embed(point.text), payload |-> point.payload]
        done == ~e.raises /\ ~Fails(qdrant.status, upsertFails)
        pts == e.collections[collection].points
    IN /\ _client' = "client"
       /\ qdrant' = [qdrant EXCEPT !.collections =
                        IF done
                        THEN [e.collections EXCEPT ![collection].points =
                                 [k \in DOMAIN pts \cup {point.point_id} |->
                                     IF k = point.point_id THEN stored ELSE pts[k]]]
                        ELSE e.collections]
       /\ reply' = [op |-> "upsert_point", during |-> qdrant.status, raises |-> ~done,
                    error |-> IF done THEN "" ELSE "ResponseHandlingException",
                    value |-> <<>>]
       /\ UNCHANGED <<_driver, backend>>
       /\ UNCHANGED outsideStores

\* the store-facing steps of hybrid_answer with its default clients
\* (rag.py 41-51, 73-77): KG.from_env() and VS.from_env() make new client
\* objects, vs.search("entities", embed(question), top_k=5) runs inside
\* try/except, kg.neighbors only reads
hybrid_answer(question, getFails, recreateFails, searchFails) ==
    LET e == EnsureCollection(qdrant, "entities", Dim, getFails, recreateFails)
        pts == IF e.raises THEN <<>> ELSE e.collections["entities"].points
    IN \E hits \in SearchResults(pts, embed(question), 5) :
           LET out == VSSearch(qdrant, "entities", getFails, recreateFails,
                               searchFails, hits)
           IN /\ qdrant' = [qdrant EXCEPT !.collections = out.collections]
              /\ reply' = [op |-> "hybrid_answer", during |-> qdrant.status,
                           raises |-> FALSE, error |-> "", value |-> out.value]
              /\ UNCHANGED <<_driver, backend, _client>>
              /\ UNCHANGED outsideStores

\* the vector backend goes down, turns flaky, or comes back
QdrantChanges ==
    /\ \E st \in QdrantStatuses \ {qdrant.status} :
           qdrant' = [qdrant EXCEPT !.status = st]
    /\ UNCHANGED <<_driver, backend, reply, _client>>
    /\ UNCHANGED outsideStores

(* ---------------------------------------------------------------------- *)
(* _request_with_retries (llm.py 19-49)                                   *)
(* ---------------------------------------------------------------------- *)
\* the largest retries argument explored
MaxRetries == 2

\* what happens to a request: a response that passes raise_for_status,
\* client.request raising, raise_for_status raising
RequestResults == {"ok", "transport", "status"}

\* what the server will do with the requests, should they be sent
Plans == [1..MaxRetries + 2 -> RequestResults]

NoError == [attempt |-> -1, kind |-> "None"]

NoOutcome == [kind |-> "", attempt |-> -1, error |-> NoError]

\* for attempt in range(retries + 1): the loop body runs for this attempt
InRange(a, r) == a < r + 1

\* variant: the last retry is never made
AfterFailureOneShort(a, r) == IF a < r - 1 THEN "sleep" ELSE "raised"

\* except Exception: if attempt < retries: sleep ... else: raise
AfterFailure(a, r) == IF a < r THEN "sleep" ELSE "raised"

\* variant: backoff * 2 * attempt
SleepDurationLinear(b, a) == b * 2 * a

\* backoff * (2**attempt)
SleepDuration(b, a) == b * (2 ^ a)

\* a caller invokes _request_with_retries(..., retries=r, backoff=b)
_request_with_retries(r, b, p) ==
    /\ rpc = "idle"
    /\ retries' = r
    /\ backoff' = b
    /\ plan' = p
    /\ attempt' = 0
    /\ log' = <<>>
    /\ last_err' = NoError
    /\ outcome' = NoOutcome
    /\ rpc' = IF InRange(0, r) THEN "request" ELSE "exhausted"
    /\ UNCHANGED outsideRetry

\* the try block of one attempt: client.request and raise_for_status; a
\* response is returned, an exception is kept in last_err and either leads
\* to the sleep or is re-raised
Request ==
    /\ rpc = "request"
    /\ LET res == plan[attempt + 1]
           err == [attempt |-> attempt, kind |-> res]
       IN /\ log' = Append(log, [ev |-> "request", attempt |-> attempt, result |-> res])
          /\ IF res = "ok"
             THEN /\ rpc' = "returned"
                  /\ outcome' = [kind |-> "response", attempt |-> attempt, error |-> NoError]
                  /\ UNCHANGED last_err
             ELSE /\ last_err' = err
                  /\ rpc' = AfterFailure(attempt, retries)
                  /\ outcome' = IF AfterFailure(attempt, retries) = "raised"
                                THEN [kind |-> "raise", attempt |-> attempt, error |-> err]
                                ELSE outcome
    /\ UNCHANGED <<retries, backoff, plan, attempt>>
    /\ UNCHANGED outsideRetry

\* _t.sleep(backoff * (2**attempt)), then the next iteration of the loop
Sleep ==
    /\ rpc = "sleep"
    /\ log' = Append(log, [ev |-> "sleep", attempt |-> attempt,
                           duration |-> SleepDuration(backoff, attempt)])
    /\ attempt' = attempt + 1
    /\ rpc' = IF InRange(attempt + 1, retries) THEN "request" ELSE "exhausted"
    /\ UNCHANGED <<retries, backoff, plan, last_err, outcome>>
    /\ UNCHANGED outsideRetry

\* the loop ended without return or raise: assert last_err; raise last_err
Exhausted ==
    /\ rpc = "exhausted"
    /\ rpc' = "raised"
    /\ outcome' = IF last_err = NoError
                  THEN [kind |-> "raise", attempt |-> attempt,
                        error |-> [attempt |-> -1, kind |-> "AssertionError"]]
                  ELSE [kind |-> "raise", attempt |-> attempt, error |-> last_err]
    /\ UNCHANGED <<retries, backoff, plan, attempt, log, last_err>>
    /\ UNCHANGED outsideRetry

\* the caller has its response or its exception
RetryDone ==
    /\ rpc \in {"returned", "raised"}
    /\ rpc' = "idle"
    /\ retries' = 0
    /\ backoff' = 0
    /\ plan' = <<>>
    /\ attempt' = 0
    /\ log' = <<>>
    /\ last_err' = NoError
    /\ outcome' = NoOutcome
    /\ UNCHANGED outsideRetry

(* ---------------------------------------------------------------------- *)
(* select_best_candidate (connectors/sparql.py 73-105)                    *)
(* ---------------------------------------------------------------------- *)
\* the longest list of candidates explored
MaxItems == 2

\* 10**9, the tie_breaker best_score starts with
Huge == 1000000000

ExactScore == 100

PrefixScore == 60

SubstringScore == 30

CanonicalScore == 5

\* str.lower on one character
LowerChar(c) == IF c = "A" THEN "a" ELSE IF c = "B" THEN "b" ELSE IF c = "C" THEN "c" ELSE c

\* str.lower
Lower(s) == [i \in 1..Len(s) |-> LowerChar(s[i])]

RECURSIVE LStrip(_)
LStrip(s) == IF s # <<>> /\ Head(s) = " " THEN LStrip(Tail(s)) ELSE s

RECURSIVE RStrip(_)
RStrip(s) ==
    IF s # <<>> /\ s[Len(s)] = " " THEN RStrip(SubSeq(s, 1, Len(s) - 1)) ELSE s

\* str.strip
Strip(s) == RStrip(LStrip(s))

\* s.startswith(t)
StartsWith(s, t) == Len(t) <= Len(s) /\ SubSeq(s, 1, Len(t)) = t

\* t in s
Contains(t, s) == \E i \in 0..(Len(s) - Len(t)) : SubSeq(s, i + 1, i + Len(t)) = t

\* "wikidata.org/entity/" in id_value or "dbpedia.org/resource/" in id_value
Canonical(id_value) ==
    id_value \in {"http://www.wikidata.org/entity/Q937", "http://dbpedia.org/resource/Ab"}

\* the terms looked up: plain, and with a capital and a leading blank
Terms == {<<"a", "b">>, <<" ", "A", "b">>}

\* labels: exact, exact up to case and blanks, prefix matches of two
\* lengths, a substring match, no match
Labels ==
    {<<"a", "b">>, <<"A", "B", " ", " ", " ">>, <<"a", "b", "c">>,
     <<"A", "b", "c", "c", "c">>, <<"c", "a", "b">>, <<"c">>}

\* a candidate {id, label}, its id a canonical URI or another
Items == [label : Labels, id : {"http://www.wikidata.org/entity/Q937", "urn:local:ab"}]

ItemLists == UNION {[1..n -> Items] : n \in 0..MaxItems}

\* best = None
NoneItem == [label |-> <<>>, id |-> "None"]

\* variant: an exact match is worth less than a prefix match
ScoreCandidateExactLow(t, label, id_value) ==
    LET tn == Lower(Strip(t))
        label_norm == Lower(Strip(label))
        match == IF label_norm = tn THEN SubstringScore
                 ELSE IF StartsWith(label_norm, tn) THEN PrefixScore
                 ELSE IF Contains(tn, label_norm) THEN SubstringScore
                 ELSE 0
        uri == IF Canonical(id_value) THEN CanonicalScore ELSE 0
        tie == IF Len(label) >= Len(t) THEN Len(label) - Len(t) ELSE Len(t) - Len(label)
    IN <<match + uri, tie>>

\* (score, tie_breaker)
_score_candidate(t, label, id_value) ==
    LET tn == Lower(Strip(t))
        label_norm == Lower(Strip(label))
        match == IF label_norm = tn THEN ExactScore
                 ELSE IF StartsWith(label_norm, tn) THEN PrefixScore
                 ELSE IF Contains(tn, label_norm) THEN SubstringScore
                 ELSE 0
        uri == IF Canonical(id_value) THEN CanonicalScore ELSE 0
        tie == IF Len(label) >= Len(t) THEN Len(label) - Len(t) ELSE Len(t) - Len(label)
    IN <<match + uri, tie>>

\* sc > best_score on tuples of two integers
TupleGreater(a, b) == a[1] > b[1] \/ (a[1] = b[1] /\ a[2] > b[2])

\* a caller invokes select_best_candidate(term, items)
select_best_candidate(t, l) ==
    /\ spc = "idle"
    /\ term' = t
    /\ items' = l
    /\ it' = 0
    /\ best_item' = NoneItem
    /\ best_score' = <<-1, Huge>>
    /\ spc' = "loop"
    /\ UNCHANGED outsideSelect

\* one iteration of for it in items
SelectStep ==
    /\ spc = "loop"
    /\ it < Len(items)
    /\ LET cand == items[it + 1]
           sc == _score_candidate(term, cand.label, cand.id)
       IN IF TupleGreater(sc, best_score)
          THEN best_score' = sc /\ best_item' = cand
          ELSE UNCHANGED <<best_score, best_item>>
    /\ it' = it + 1
    /\ UNCHANGED <<spc, term, items>>
    /\ UNCHANGED outsideSelect

\* return best
SelectReturn ==
    /\ spc = "loop"
    /\ it = Len(items)
    /\ spc' = "returned"
    /\ UNCHANGED <<term, items, it, best_item, best_score>>
    /\ UNCHANGED outsideSelect

\* the caller has its candidate
SelectDone ==
    /\ spc = "returned"
    /\ spc' = "idle"
    /\ term' = <<>>
    /\ items' = <<>>
    /\ it' = 0
    /\ best_item' = NoneItem
    /\ best_score' = <<-1, Huge>>
    /\ UNCHANGED outsideSelect

(* ---------------------------------------------------------------------- *)
(* /chat/stream (api.py 201-202, 435-455; llm.py 219-250)                 *)
(* ---------------------------------------------------------------------- *)
\* the number of requests to /chat/stream explored
MaxStreams == 2

\* stream_answer yields a chunk every 12 words
ChunkWords == 12

\* the lengths, in words, of the text generate_answer returns
WordCounts == {0, ChunkWords, ChunkWords + 1}

\* a request slot not used yet
NoStream ==
    [st |-> "none", sid |-> "", q |-> "", rest |-> <<>>, chunks |-> <<>>,
     failed |-> FALSE]

\* " ".join(buf): the words with one blank between two of them; a text is
\* a sequence of words and blanks
RECURSIVE JoinWords(_)
JoinWords(buf) ==
    IF buf = <<>> THEN <<>>
    ELSE IF Len(buf) = 1 THEN buf
    ELSE <<Head(buf), " ">> \o JoinWords(Tail(buf))

\* the chunks stream_answer yields for the words of the answer: 12 words
\* and a trailing blank, and what is left at the end without one
RECURSIVE Chunked(_)
Chunked(words) ==
    IF words = <<>> THEN <<>>
    ELSE IF Len(words) >= ChunkWords
         THEN <<JoinWords(SubSeq(words, 1, ChunkWords)) \o <<" ">>>>
              \o Chunked(SubSeq(words, ChunkWords + 1, Len(words)))
         ELSE <<JoinWords(words)>>

\* text.split() of the answer to q, n words long
WordsOf(q, n) == [k \in 1..n |-> q \o ToString(k)]

\* "".join(chunks)
RECURSIVE Concat(_)
Concat(chunks) == IF chunks = <<>> THEN <<>> ELSE Head(chunks) \o Concat(Tail(chunks))

\* CHAT_STORE[sid].append(msg), the list being there
Appended(store, sid, msg) == [store EXCEPT ![sid] = Append(@, msg)]

\* CHAT_STORE.setdefault(sid, [])
SetDefault(store, sid) ==
    IF sid \in DOMAIN store THEN store
    ELSE [s \in DOMAIN store \cup {sid} |-> IF s = sid THEN <<>> ELSE store[s]]

\* the handler of GET /chat/stream: the session id is the cookie's, or a new
\* one; the user message is recorded; the response holds the generator,
\* which has not run yet
chat_stream(r, sid, q) ==
    /\ streams[r].st = "none"
    /\ \A k \in 1..(r - 1) : streams[k].st # "none"
    /\ CHAT_STORE' = Appended(SetDefault(CHAT_STORE, sid), sid,
                              [role |-> "user", content |-> <<q>>])
    /\ streams' = [streams EXCEPT ![r] = [st |-> "created", sid |-> sid, q |-> q,
                                          rest |-> <<>>, chunks |-> <<>>, failed |-> FALSE]]
    /\ UNCHANGED outsideChat

\* the server pulls the first item: stream_answer calls generate_answer,
\* which returns a text of n words or raises; the generator yields the first
\* delta, or the error event, or (no word) records the empty answer and
\* yields the end marker
StreamStart(r, n, raises) ==
    /\ streams[r].st = "created"
    /\ LET pieces == Chunked(WordsOf(streams[r].q, n))
       IN IF raises
          THEN /\ streams' = [streams EXCEPT ![r].st = "error", ![r].failed = TRUE]
               /\ UNCHANGED CHAT_STORE
          ELSE IF pieces = <<>>
          THEN /\ streams' = [streams EXCEPT ![r].st = "ended"]
               /\ CHAT_STORE' = Appended(CHAT_STORE, streams[r].sid,
                                         [role |-> "assistant", content |-> Strip(Concat(<<>>))])
          ELSE /\ streams' = [streams EXCEPT ![r].st = "streaming",
                                             ![r].chunks = <<Head(pieces)>>,
                                             ![r].rest = Tail(pieces)]
               /\ UNCHANGED CHAT_STORE
    /\ UNCHANGED outsideChat

\* the server pulls the next item while stream_answer has chunks left
StreamDelta(r) ==
    /\ streams[r].st = "streaming"
    /\ streams[r].rest # <<>>
    /\ streams' = [streams EXCEPT ![r].chunks = Append(@, Head(streams[r].rest)),
                                  ![r].rest = Tail(@)]
    /\ UNCHANGED CHAT_STORE
    /\ UNCHANGED outsideChat

\* the server pulls the next item after the last chunk: the loop ends, the
\* assistant message is recorded, the end marker is yielded
StreamEnd(r) ==
    /\ streams[r].st = "streaming"
    /\ streams[r].rest = <<>>
    /\ CHAT_STORE' = Appended(CHAT_STORE, streams[r].sid,
                              [role |-> "assistant", content |-> Strip(Concat(streams[r].chunks))])
    /\ streams' = [streams EXCEPT ![r].st = "ended"]
    /\ UNCHANGED outsideChat

\* the server pulls the next item after the error event: the end marker
StreamEndAfterError(r) ==
    /\ streams[r].st = "error"
    /\ streams' = [streams EXCEPT ![r].st = "ended"]
    /\ UNCHANGED CHAT_STORE
    /\ UNCHANGED outsideChat

(* ---------------------------------------------------------------------- *)
(* The calls                                                              *)
(* ---------------------------------------------------------------------- *)
NoArgs == CallArgs("", [raises |-> TRUE, hits |-> <<>>], <<>>, None, DefaultStyle)

NoResult ==
    [answer |-> "", facts |-> <<>>, vector_hits |-> <<>>, selected_entities |-> <<>>,
     sources |-> <<>>, confidence |-> ""]

Init ==
    /\ pc = "idle"
    /\ args = NoArgs
    /\ result = NoResult
    /\ origin = <<>>
    /\ queried = <<>>
    /\ _driver = "None"
    /\ backend = [status |-> "up", rels |-> <<>>]
    /\ reply = NoReply
    /\ _client = "None"
    /\ qdrant = [status |-> "up", collections |-> <<>>]
    /\ rpc = "idle"
    /\ retries = 0
    /\ backoff = 0
    /\ plan = <<>>
    /\ attempt = 0
    /\ log = <<>>
    /\ last_err = NoError
    /\ outcome = NoOutcome
    /\ spc = "idle"
    /\ term = <<>>
    /\ items = <<>>
    /\ it = 0
    /\ best_item = NoneItem
    /\ best_score = <<-1, Huge>>
    /\ CHAT_STORE = [sid \in {} |-> <<>>]
    /\ streams = [r \in 1..MaxStreams |-> NoStream]

\* a caller invokes hybrid_answer
Call ==
    /\ pc = "idle"
    /\ \/ \E a \in FusionArgs : args' = a
       \/ \E a \in GraphArgs : args' = a
       \/ \E a \in CitationArgs : args' = a
       \/ \E a \in MalformedArgs : args' = a
       \/ \E a \in SparseArgs : args' = a
       \/ \E a \in StyleArgs : args' = a
       \/ \E a \in FanOutArgs : args' = a
    /\ pc' = "called"
    /\ UNCHANGED <<result, origin, queried>>
    /\ UNCHANGED outsideCall

\* the body runs to its return statement
Return ==
    /\ pc = "called"
    /\ ~Raises(args)
    /\ result' = HybridAnswer(args)
    /\ origin' = LET e == FactsSorted(Encountered(args))
                 IN [i \in DOMAIN e |-> [pos |-> e[i].pos, node |-> e[i].node]]
    /\ queried' = Queried(args)
    /\ pc' = "returned"
    /\ UNCHANGED args
    /\ UNCHANGED outsideCall

\* an exception no except clause catches leaves the body
Raise ==
    /\ pc = "called"
    /\ Raises(args)
    /\ queried' = Queried(args)
    /\ pc' = "raised"
    /\ UNCHANGED <<args, result, origin>>
    /\ UNCHANGED outsideCall

\* the caller drops the result; nothing of the call is kept
Reset ==
    /\ pc \in {"returned", "raised"}
    /\ pc' = "idle"
    /\ args' = NoArgs
    /\ result' = NoResult
    /\ origin' = <<>>
    /\ queried' = <<>>
    /\ UNCHANGED outsideCall

Next == Call \/ Return \/ Raise \/ Reset

Spec == Init /\ [][Next]_vars

\* the callers of _request_with_retries, with retries negative, zero or
\* positive and two values of backoff; a request and a sleep each come to an
\* end (the request has a timeout)
NextRetry ==
    \/ \E r \in -1..MaxRetries, b \in {1, 3}, p \in Plans : _request_with_retries(r, b, p)
    \/ Request
    \/ Sleep
    \/ Exhausted
    \/ RetryDone

SpecRetry ==
    /\ Init
    /\ [][NextRetry]_vars
    /\ WF_vars(Request)
    /\ WF_vars(Sleep)
    /\ WF_vars(Exhausted)

\* wikidata_resolve and dbpedia_resolve call select_best_candidate
NextSelect ==
    \/ \E t \in Terms, l \in ItemLists : select_best_candidate(t, l)
    \/ SelectStep
    \/ SelectReturn
    \/ SelectDone

SpecSelect == Init /\ [][NextSelect]_vars

\* the server handles the requests to /chat/stream (two session ids, two
\* questions) in a thread pool and pulls the items of each response as the
\* client reads them
NextChat ==
    \/ \E r \in 1..MaxStreams, sid \in {"s1", "s2"}, q \in {"hello", "why"} :
           chat_stream(r, sid, q)
    \/ \E r \in 1..MaxStreams, n \in WordCounts, raises \in BOOLEAN : StreamStart(r, n, raises)
    \/ \E r \in 1..MaxStreams : StreamDelta(r)
    \/ \E r \in 1..MaxStreams : StreamEnd(r)
    \/ \E r \in 1..MaxStreams : StreamEndAfterError(r)

SpecChat == Init /\ [][NextChat]_vars

\* a call of hybrid_answer with its default clients
HybridAnswerOnStores ==
    \E question \in NodeIds, getFails, recreateFails, searchFails \in BOOLEAN :
        hybrid_answer(question, getFails, recreateFails, searchFails)

\* the callers of the store clients
NextStores ==
    \/ \E node_id \in NodeIds, limit \in Limits, offset \in Offsets :
           neighbors(node_id, limit, offset)
    \/ \E k \in RelKeys, meta \in Metas : upsert_triple(k[1], k[2], k[3], meta)
    \/ BackendChanges
    \/ \E point \in Points, getFails, recreateFails, upsertFails \in BOOLEAN :
           upsert_point("entities", point, getFails, recreateFails, upsertFails)
    \/ HybridAnswerOnStores
    \/ QdrantChanges

SpecStores == Init /\ [][NextStores]_vars

(* ---------------------------------------------------------------------- *)
(* Properties                                                             *)
(* ---------------------------------------------------------------------- *)
Finished == pc \in {"returned", "raised"}

\* the stores answer nothing and no document is supplied
AllUnavailable(a) ==
    /\ a.search.hits = <<>>
    /\ \A n \in DOMAIN a.graph : a.graph[n].records = <<>>
    /\ ~Truthy(a.web_docs)

\* C1: when the vector search raises or returns nothing, every graph lookup
\* raises or returns nothing and web_docs is empty or None, hybrid_answer
\* returns without raising, with facts == [], vector_hits == [] and
\* confidence == "low".
C1_DegradedResult ==
    (Finished /\ AllUnavailable(args)) =>
        /\ pc = "returned"
        /\ result.facts = <<>>
        /\ result.vector_hits = <<>>
        /\ result.confidence = "low"

C1_Witness ==
    /\ pc = "returned"
    /\ args.search.raises
    /\ args.graph["E1"].raises
    /\ args.question = "E1"
    /\ args.web_docs = List(<<>>)

\* C2: in every result, facts is ordered by score descending: a fact that
\* appears before another has a score at least as high.
C2_FactsSortedDesc ==
    pc = "returned" =>
        \A i, j \in DOMAIN result.facts :
            i < j => result.facts[i].score >= result.facts[j].score

\* the sort moved a fact expanded later in front of one expanded earlier
C2_Witness ==
    /\ pc = "returned"
    /\ \E i, j \in DOMAIN result.facts :
           /\ i < j
           /\ origin[i].pos > origin[j].pos
           /\ result.facts[i].score > result.facts[j].score

\* every hit is a mapping whose score is a number or absent
NumericHits(hits) ==
    \A k \in DOMAIN hits :
        IF IsMapping(hits[k]) THEN ScoreOr0(hits[k]).t = "num" ELSE FALSE

\* C3: a fact expanded from a candidate c that a vector hit resolved, by its
\* payload id or by its payload entity_id, has the score
\* round(raw score of that hit / maximum raw score of the batch
\*       + 0.10 if rank is preferred + 0.05 if pred_code is P31 or P279, 4).
C3_ScoreFromResolvingHit ==
    (pc = "returned" /\ NumericHits(result.vector_hits)) =>
        \A i \in DOMAIN result.facts :
            LET hits == result.vector_hits
                by == {k \in DOMAIN hits : CandOf(hits[k]) = Str(origin[i].node)}
            IN by # {} =>
                   \E k \in by :
                       result.facts[i].score =
                           RoundHalfEven(ScoreScale * ScoreOr0(hits[k]).v
                                         + Bonus(result.facts[i].meta) * Best(hits).v,
                                         Best(hits).v)

\* score - (normalized + 0.15) of fact i, times |den|, in units of
\* 1 / ScoreScale; normalized is the candidate's entry of the
\* id -> normalized_score map, 0 when it has none
ExcessTimesDen(i) ==
    LET f == VectorScore(IdToScore(result.vector_hits), origin[i].node)
        e == result.facts[i].score * f.den
             - (ScoreScale * f.num + (RankBonus + TypeBonus) * f.den)
    IN IF f.den < 0 THEN -e ELSE e

AbsDen(i) ==
    LET f == VectorScore(IdToScore(result.vector_hits), origin[i].node)
    IN IF f.den < 0 THEN -f.den ELSE f.den

\* C4 as stated: the fusion score of a fact never exceeds the normalized
\* vector score of its candidate plus 0.15.
C4_NeverExceedsBound ==
    (pc = "returned" /\ NumericHits(result.vector_hits)) =>
        \A i \in DOMAIN result.facts : ExcessTimesDen(i) <= 0

\* C4 amended: the fusion score of a fact, being rounded to 4 decimal
\* places, never exceeds the normalized vector score of its candidate plus
\* 0.15 by more than 0.00005.
C4_NeverExceedsBoundRounded ==
    (pc = "returned" /\ NumericHits(result.vector_hits)) =>
        \A i \in DOMAIN result.facts : 2 * ExcessTimesDen(i) <= AbsDen(i)

\* a fact with both bonuses whose rounding went up, above the bound
C4_Witness ==
    /\ pc = "returned"
    /\ NumericHits(result.vector_hits)
    /\ \E i \in DOMAIN result.facts :
           /\ Bonus(result.facts[i].meta) = RankBonus + TypeBonus
           /\ ExcessTimesDen(i) > 0

C7_TopScoreAndCitationsAll ==
    (pc = "returned" /\ result.facts # <<>> /\ Truthy(args.web_docs)) =>
        LET f0 == result.facts[1]
        IN /\ "citations" \in DOMAIN f0
           /\ Len(f0.citations) = 1
           /\ "top_score" \in DOMAIN f0
           /\ "citations_all" \in DOMAIN f0
           /\ Len(f0.citations_all) \in 1..5

\* C8: confidence is "low" with 0 or 1 source, "medium" with exactly 2,
\* "high" with 3 or more, whatever the facts and hits are.
C8_ConfidenceBySourceCount ==
    pc = "returned" =>
        LET n == Len(result.sources)
        IN result.confidence =
               CASE n \in {0, 1} -> "low"
                 [] n = 2 -> "medium"
                 [] OTHER -> "high"

\* three sources, facts with citations: the lowest count that gives "high"
C8_Witness ==
    /\ pc = "returned"
    /\ Len(result.sources) = 3
    /\ result.confidence = "high"
    /\ result.facts # <<>>

\* C9: hybrid_answer never raises to its caller, whatever the collaborators
\* return or raise; the call returns a dict with the six result keys.
C9_NeverRaises ==
    /\ pc # "raised"
    /\ pc = "returned" =>
           DOMAIN result = {"answer", "facts", "vector_hits", "selected_entities",
                            "sources", "confidence"}

\* hits, graph records and web documents are mappings that at most lack
\* fields (a missing field reads as None)
OnlyMissingFields(a) ==
    /\ NumericHits(a.search.hits)
    /\ \A k \in DOMAIN a.search.hits :
           Get(a.search.hits[k], "payload").t \in {"None", "dict"}
    /\ \A c \in DOMAIN a.graph : \A n \in Range(a.graph[c].records) :
           IF IsMapping(n) THEN Get(n, "meta").t \in {"None", "dict"} ELSE FALSE
    /\ \A d \in Range(Docs(a.web_docs)) : IsMapping(d)

\* C10: when records, hits and documents merely lack fields, hybrid_answer
\* raises nothing, every graph record returned for an expanded candidate is
\* in facts with a score, and every document of web_docs[:10] is in sources.
C10_PartialRecordsKept ==
    (Finished /\ OnlyMissingFields(args)) =>
        /\ pc = "returned"
        /\ \A p \in DOMAIN Take(result.selected_entities, CandidateCap) :
               LET c == result.selected_entities[p]
               IN \A n \in Range(Neighbors(args.graph, c)) :
                      \E i \in DOMAIN result.facts :
                          /\ origin[i].node = c
                          /\ result.facts[i].subject = Get(n, "s")
                          /\ result.facts[i].predicate = Get(n, "p")
                          /\ result.facts[i].object = Get(n, "o")
                          /\ result.facts[i].meta = Get(n, "meta")
                          /\ result.facts[i].score \in Int
        /\ Len(result.sources) = Len(Docs(args.web_docs))
        /\ \A i \in DOMAIN result.sources :
               /\ result.sources[i].url = Get(Docs(args.web_docs)[i], "url")
               /\ result.sources[i].engine = Get(Docs(args.web_docs)[i], "engine")

\* a hit without payload and score, a record without any field and a
\* document without any field, all in one call
C10_Witness ==
    /\ pc = "returned"
    /\ Hit(EmptyDict, None) \in Range(args.search.hits)
    /\ EmptyDict \in Range(args.graph["E1"].records)
    /\ EmptyDict \in Range(Docs(args.web_docs))
    /\ result.facts # <<>>

\* the two bonuses of a fact, read off its meta
BonusOf(fact) ==
    IF ~IsMapping(fact.meta) THEN 0
    ELSE (IF Get(fact.meta, "rank") = Str("preferred") THEN RankBonus ELSE 0)
       + (IF Get(fact.meta, "pred_code") \in {Str("P31"), Str("P279")}
          THEN TypeBonus ELSE 0)

\* C11: when the vector search raises or returns an empty sequence,
\* selected_entities == [question], the graph store is queried for exactly
\* the node id equal to the raw question string, and every fact comes from
\* that lookup with a vector component of 0: its score is the rank/type
\* bonus only.
C11_DegradedLookup ==
    (pc = "returned" /\ (args.search.raises \/ args.search.hits = <<>>)) =>
        /\ result.selected_entities = <<args.question>>
        /\ queried = <<args.question>>
        /\ \A i \in DOMAIN result.facts :
               /\ origin[i].node = args.question
               /\ result.facts[i].score = BonusOf(result.facts[i])

\* the search raised and the question, looked up as a node id, gave a fact
\* with both bonuses and a fact with none
C11_Witness ==
    /\ pc = "returned"
    /\ args.search.raises
    /\ queried = <<"E1">>
    /\ \E i, j \in DOMAIN result.facts :
           /\ result.facts[i].score = RankBonus + TypeBonus
           /\ result.facts[j].score = 0

\* the lookup of candidate c raises
LookupRaises(a, c) == IF c \in DOMAIN a.graph THEN a.graph[c].raises ELSE FALSE

\* the same call against a graph store that answers an empty neighbourhood
\* wherever the lookup raises
WithEmptyForRaising(a) ==
    [a EXCEPT !.graph = [c \in DOMAIN a.graph |->
                            IF a.graph[c].raises THEN NoNode ELSE a.graph[c]]]

\* C12: if the graph lookup raises for some of the expanded candidates and
\* succeeds for the others, every candidate of candidate_ids[:3] is still
\* looked up, every fact comes from a candidate whose lookup succeeded, and
\* facts is identical (same facts, scores and order) to the facts of the
\* call in which the failing lookups return an empty neighbourhood.
C12_FailedLookupAsEmpty ==
    LET expanded == Take(result.selected_entities, CandidateCap)
    IN (/\ pc = "returned"
        /\ \E k \in DOMAIN expanded : LookupRaises(args, expanded[k])
        /\ \E k \in DOMAIN expanded : ~LookupRaises(args, expanded[k])) =>
           /\ queried = expanded
           /\ \A i \in DOMAIN result.facts : ~LookupRaises(args, origin[i].node)
           /\ result.facts = HybridAnswer(WithEmptyForRaising(args)).facts

\* the lookup of the first candidate raised, a later candidate gave facts
C12_Witness ==
    /\ pc = "returned"
    /\ Len(result.selected_entities) = 2
    /\ LookupRaises(args, result.selected_entities[1])
    /\ queried = result.selected_entities
    /\ Len(result.facts) = 2
    /\ \A i \in DOMAIN result.facts : origin[i].node = result.selected_entities[2]

\* the documents attribution embeds
Documents == IF Truthy(args.web_docs) THEN Take(args.web_docs.v, DocCap) ELSE <<>>

\* cosine similarity of the claim string of fact i and document j, as the
\* fraction num / sqrt(densq); num is never negative
Sim(i, j) == _cos(embed(Claim(result.facts[i])), embed(DocText(Documents[j])))

\* x > y for two similarities
SimGreater(x, y) == x.num * x.num * y.densq > y.num * y.num * x.densq

NoPositiveSim(i) == \A j \in DOMAIN Documents : Sim(i, j).num <= 0

Projection(d) ==
    [url |-> Get(d, "url"), title |-> Get(d, "title"), engine |-> Get(d, "engine")]

\* {url, title, engine} of a document, the url standing for a missing or
\* empty title
ProjectionTitled(d) ==
    [url |-> Get(d, "url"),
     title |-> IF Truthy(Get(d, "title")) THEN Get(d, "title") ELSE Get(d, "url"),
     engine |-> Get(d, "engine")]

\* C15 as stated: for a supplied web_docs sequence of any length, sources
\* has the same length and order as web_docs and sources[i] is the
\* projection {url, title, engine} of web_docs[i].
C15_SourcesMirrorWebDocs ==
    (pc = "returned" /\ args.web_docs.t = "list") =>
        /\ Len(result.sources) = Len(args.web_docs.v)
        /\ \A i \in DOMAIN result.sources :
               IF IsMapping(args.web_docs.v[i])
               THEN result.sources[i] = Projection(args.web_docs.v[i])
               ELSE FALSE

\* C15 amended: sources lists, in order, the projections {url, title (the
\* url when the title is missing or empty), engine} of the items of
\* web_docs[:10] that are mappings; a citation index n on a fact lies within
\* web_docs[:10], all of whose items are then mappings, and sources[n] is
\* the projection of web_docs[n].
C15_SourcesMirrorFirstTen ==
    (pc = "returned" /\ args.web_docs.t = "list") =>
        LET supplied == Take(args.web_docs.v, DocCap)
            kept == SelectSeq(supplied, IsMapping)
        IN /\ Len(result.sources) = Len(kept)
           /\ \A i \in DOMAIN result.sources :
                  result.sources[i] = ProjectionTitled(kept[i])
           /\ \A i \in DOMAIN result.facts :
                  "citations" \in DOMAIN result.facts[i] =>
                      /\ kept = supplied
                      /\ \A k \in DOMAIN result.facts[i].citations :
                             LET n == result.facts[i].citations[k]
                             IN /\ n \in DOMAIN supplied
                                /\ result.sources[n] = ProjectionTitled(supplied[n])

\* more than ten documents supplied, ten sources, facts with citations
C15_Witness ==
    /\ pc = "returned"
    /\ args.web_docs.t = "list"
    /\ Len(args.web_docs.v) > DocCap
    /\ Len(result.sources) = DocCap
    /\ \E i \in DOMAIN result.facts : "citations" \in DOMAIN result.facts[i]

\* C17: every fact of every result has score >= 0, whatever raw similarity
\* scores (positive, zero, negative or missing) the vector search returned
\* and whatever metadata the graph records carry.
C17_ScoreNonNegative ==
    (pc = "returned" /\ NumericHits(result.vector_hits)) =>
        \A i \in DOMAIN result.facts : result.facts[i].score >= 0

\* 0 <= num / den <= 1
InUnitInterval(f) ==
    IF f.den > 0 THEN 0 <= f.num /\ f.num <= f.den
    ELSE f.den <= f.num /\ f.num <= 0

\* C18: for a non-empty batch of vector hits, every value of the
\* id -> normalized_score map lies in [0, 1]; the entity (payload id) of a
\* hit with the maximum raw score is mapped to 1 whenever that maximum is
\* positive; when all raw scores are 0 or missing the divisor is 1 and every
\* value is 0.
C18_NormalizedInUnitInterval ==
    (pc = "returned" /\ result.vector_hits # <<>> /\ NumericHits(result.vector_hits)) =>
        LET hits == result.vector_hits
            id_to_score == IdToScore(hits)
            raw == [k \in DOMAIN hits |-> ScoreOr0(hits[k]).v]
            top == CHOOSE m \in Range(raw) : \A x \in Range(raw) : x <= m
        IN /\ \A key \in DOMAIN id_to_score : InUnitInterval(id_to_score[key])
           /\ top > 0 =>
                  \A k \in DOMAIN hits :
                      (raw[k] = top /\ IsStr(Get(PayloadOf(hits[k]), "id"))) =>
                          LET entity == Get(PayloadOf(hits[k]), "id").v
                          IN /\ entity \in DOMAIN id_to_score
                             /\ id_to_score[entity].num = id_to_score[entity].den
           /\ (\A k \in DOMAIN hits : raw[k] = 0) =>
                  \A key \in DOMAIN id_to_score :
                      id_to_score[key] = [num |-> 0, den |-> 1]

\* the hits that resolved candidate c, by payload id or payload entity_id
Resolving(c) ==
    {k \in DOMAIN result.vector_hits : CandOf(result.vector_hits[k]) = Str(c)}

\* raw(k1) / best - raw(k2) / best > 0.15
GapAbove(k1, k2) ==
    LET hits == result.vector_hits
        d == ScoreOr0(hits[k1]).v - ScoreOr0(hits[k2]).v
        best == Best(hits).v
    IN IF best > 0 THEN 100 * d > 15 * best ELSE 100 * d < 15 * best

\* C19: if the normalized vector scores of two expanded candidates c1 and
\* c2 differ by more than 0.15, normalized(c1) - normalized(c2) > 0.15,
\* every fact of c1 appears in facts before every fact of c2, whatever
\* rank and pred_code their metadata carry.
C19_MateriallyHigherFirst ==
    (pc = "returned" /\ NumericHits(result.vector_hits)) =>
        \A i, j \in DOMAIN result.facts :
            LET c1 == origin[i].node
                c2 == origin[j].node
            IN (/\ Resolving(c1) # {}
                /\ Resolving(c2) # {}
                /\ \A k1 \in Resolving(c1), k2 \in Resolving(c2) : GapAbove(k1, k2)) =>
                   i < j

\* C20: KG.neighbors returns an empty sequence, and raises nothing, whenever
\* the graph backend errors (the driver cannot connect, the session or the
\* query fails).
C20_NeighborsFailsSilently ==
    (reply.op = "neighbors" /\ reply.during # "up") =>
        /\ ~reply.raises
        /\ reply.value = <<>>

\* C21: a hybrid_answer call only reads from the stores: the contents of
\* the graph store and of the vector store (the points and the set of
\* existing collections) are the same after the call as before it.
C21_StoresOnlyRead ==
    [][HybridAnswerOnStores =>
           /\ backend'.rels = backend.rels
           /\ qdrant'.collections = qdrant.collections]_vars

\* the footnote markers of S sources
ExpectedMarkers(S) ==
    CASE S = 0 -> ""
      [] S = 1 -> " [1]"
      [] S = 2 -> " [1][2]"
      [] OTHER -> " [1][2][3]"

\* C22: for every tone, audience, timeframe >= 0 and length, and every
\* number F of facts, V of vector hits and S of sources, answer equals
\* "<lead> <audience> (<timeframe>): F graph facts fused with V vector
\* hits.", followed by the extra-detail sentence exactly when length >= 400,
\* followed by the markers [1]..[min(3, S)], by none when S = 0.
C22_AnswerFormat ==
    pc = "returned" =>
        result.answer =
            (CASE args.tone = "executive" -> "Executive summary"
               [] args.tone = "humorous" -> "Quick take (with a wink)"
               [] OTHER -> "Summary")
            \o " "
            \o (CASE args.audience = "general" -> "for a general audience"
                  [] args.audience = "non-technical" -> "for non-technical readers"
                  [] OTHER -> "for experts")
            \o " ("
            \o (IF args.timeframe = 0 THEN "all time"
                ELSE "last " \o ToString(args.timeframe) \o " days")
            \o "): " \o ToString(Len(result.facts)) \o " graph facts fused with "
            \o ToString(Len(result.vector_hits)) \o " vector hits."
            \o (IF args.length >= 400
                THEN " Additional detail included per requested length." ELSE "")
            \o ExpectedMarkers(Len(result.sources))

\* length exactly 400, four sources, the humorous lead, timeframe 0
C22_Witness ==
    /\ pc = "returned"
    /\ args.length = 400
    /\ args.tone = "humorous"
    /\ args.audience = "non-technical"
    /\ args.timeframe = 0
    /\ Len(result.sources) = 4
    /\ Len(result.facts) = 2
    /\ Len(result.vector_hits) = 2


(* ---------------------------------------------------------------------- *)
(* _request_with_retries: what a call sends, sleeps and gives             *)
(* ---------------------------------------------------------------------- *)
\* the requests among the events of a call
RequestsIn(l) == SelectSeq(l, LAMBDA e : e.ev = "request")

\* the number of the first attempt the server would answer successfully, 0
\* when there is none among the first n
FirstOk(p, n) ==
    IF \E k \in 1..n : p[k] = "ok"
    THEN CHOOSE k \in 1..n : p[k] = "ok" /\ \A j \in 1..(k - 1) : p[j] # "ok"
    ELSE 0

RetryFinished == rpc \in {"returned", "raised"}

\* C23: when the first attempt to succeed is the k-th and k <= retries + 1,
\* the call returns the response of that attempt, it has sent exactly k
\* requests when it returns, and at no moment has it sent more than k: no
\* request follows the successful one.
C23_ReturnsFirstSuccess ==
    LET k == FirstOk(plan, retries + 1)
    IN (rpc # "idle" /\ k >= 1) =>
          /\ Len(RequestsIn(log)) <= k
          /\ rpc # "raised"
          /\ rpc = "returned" =>
                /\ outcome.kind = "response"
                /\ outcome.attempt = k - 1
                /\ Len(RequestsIn(log)) = k
                /\ log[Len(log)] = [ev |-> "request", attempt |-> k - 1, result |-> "ok"]
                /\ \A j \in 1..(Len(log) - 1) : log[j].ev = "request" => log[j].result # "ok"

\* a call that returned the response of its last allowed attempt, after two
\* failures
C23_Witness ==
    /\ rpc = "returned"
    /\ retries = 2
    /\ FirstOk(plan, retries + 1) = 3
    /\ outcome.attempt = 2

\* what C30 says of the events of a call: at most retries + 1 requests; a
\* sleep comes right after the failed request of an attempt before the last,
\* lasts backoff * 2^attempt and is followed by the request of the next
\* attempt; the exception raised is the one of the last attempt
C30_Budget ==
    (rpc # "idle" /\ retries >= 0) =>
        /\ Len(RequestsIn(log)) <= retries + 1
        /\ \A i \in 1..Len(log) :
              log[i].ev = "sleep" =>
                  /\ i > 1
                  /\ log[i - 1].ev = "request"
                  /\ log[i - 1].attempt = log[i].attempt
                  /\ log[i - 1].result # "ok"
                  /\ log[i].attempt < retries
                  /\ log[i].duration = backoff * (2 ^ log[i].attempt)
                  /\ i < Len(log) =>
                        /\ log[i + 1].ev = "request"
                        /\ log[i + 1].attempt = log[i].attempt + 1
                  /\ i = Len(log) => ~RetryFinished
        /\ \A i \in 1..Len(log) :
              (log[i].ev = "request" /\ i > 1) =>
                  /\ log[i - 1].ev = "sleep"
                  /\ log[i - 1].attempt + 1 = log[i].attempt
        /\ rpc = "raised" =>
              /\ Len(RequestsIn(log)) = retries + 1
              /\ \A k \in 1..(retries + 1) : plan[k] # "ok"
              /\ outcome.kind = "raise"
              /\ outcome.error = [attempt |-> retries, kind |-> plan[retries + 1]]
              /\ log[Len(log)].ev = "request"

\* C30: a call with retries >= 0 comes to an end, with a response or an
\* exception, after at most retries + 1 requests; when every attempt fails
\* it raises the exception of the last one; it sleeps only between two
\* attempts, backoff * 2^attempt before attempt + 1, and never after the
\* last failed attempt.
C30_TerminatesWithinBudget ==
    /\ []C30_Budget
    /\ (rpc # "idle" /\ retries >= 0) ~> RetryFinished

\* every attempt failed: retries + 1 requests, a sleep between each two,
\* the last exception raised
C30_Witness ==
    /\ rpc = "raised"
    /\ retries = 2
    /\ Len(log) = 5
    /\ log[4].ev = "sleep"
    /\ log[4].duration = backoff * 2
    /\ outcome.error.attempt = 2

(* ---------------------------------------------------------------------- *)
(* select_best_candidate: which candidate it returns                      *)
(* ---------------------------------------------------------------------- *)
\* the label equals the term, case-insensitively and after trimming
IsExact(t, label) == Lower(Strip(label)) = Lower(Strip(t))

\* C24: whenever items holds an item whose label equals the term
\* (case-insensitively, after trimming), the item returned is such an item,
\* whatever the other items and the order; None is returned only for an
\* empty items.
C24_PrefersExactMatch ==
    spc = "returned" =>
        /\ (\E j \in 1..Len(items) : IsExact(term, items[j].label)) =>
              /\ \E j \in 1..Len(items) : best_item = items[j]
              /\ IsExact(term, best_item.label)
        /\ best_item = NoneItem => items = <<>>

\* an exact match with a plain id, met after a prefix match with a
\* canonical URI, is returned
C24_Witness ==
    /\ spc = "returned"
    /\ Len(items) = 2
    /\ ~IsExact(term, items[1].label)
    /\ StartsWith(Lower(Strip(items[1].label)), Lower(Strip(term)))
    /\ Canonical(items[1].id)
    /\ IsExact(term, items[2].label)
    /\ ~Canonical(items[2].id)
    /\ best_item = items[2]

\* C27: among the candidates with the same heuristic score as the one
\* returned, the one returned has the lowest tie_breaker: no candidate of
\* that score has a label length closer to the length of the term.
C27_LowerTieBreakerWins ==
    (spc = "returned" /\ items # <<>>) =>
        \A j \in 1..Len(items) :
            LET sc == _score_candidate(term, items[j].label, items[j].id)
                chosen == _score_candidate(term, best_item.label, best_item.id)
            IN sc[1] = chosen[1] => chosen[2] <= sc[2]

(* ---------------------------------------------------------------------- *)
(* hybrid_answer: order and number of the facts                           *)
(* ---------------------------------------------------------------------- *)
\* C25: two facts with the same score keep their encounter order: the one
\* produced earlier (earlier candidate, or earlier record of the same
\* candidate) comes first in facts.
C25_TiesKeepEncounterOrder ==
    pc = "returned" =>
        \A i, j \in DOMAIN result.facts :
            (i < j /\ result.facts[i].score = result.facts[j].score)
                => origin[i].pos < origin[j].pos

\* facts of equal score from two candidates, in a result where the sort
\* moved a later fact to the front
C25_Witness ==
    /\ pc = "returned"
    /\ \E i, j \in DOMAIN result.facts :
           /\ i < j
           /\ result.facts[i].score = result.facts[j].score
           /\ origin[i].node # origin[j].node
    /\ \E i, j \in DOMAIN result.facts :
           /\ i < j
           /\ origin[i].pos > origin[j].pos

\* the number of facts expanded from node c
FactsOf(c) == Cardinality({i \in DOMAIN result.facts : origin[i].node = c})

\* the number of times node c was looked up
LookupsOf(c) == Cardinality({k \in DOMAIN queried : queried[k] = c})

\* no lookup gives more facts than the limit, nor all of them more than
\* three times the limit
WithinLimit ==
    /\ \A c \in Range(queried) : FactsOf(c) <= NeighborsLimit * LookupsOf(c)
    /\ Len(result.facts) <= CandidateCap * NeighborsLimit

\* the graph store returns no more records than the limit asks for
StoreHonoursLimit ==
    \A c \in DOMAIN args.graph : Len(args.graph[c].records) <= NeighborsLimit

NoRepeat(seq) == \A i, j \in DOMAIN seq : i # j => seq[i] # seq[j]

\* C29: in every result, selected_entities holds each entity id at most
\* once, no graph node is looked up more than once in the call, and each
\* record of a node gives at most one fact, even when several vector hits
\* (the label point and an alias point of an entity) carry the same
\* payload id.
C29_NoEntityTwice ==
    pc = "returned" =>
        /\ NoRepeat(result.selected_entities)
        /\ NoRepeat(queried)
        /\ \A c \in Range(queried) : FactsOf(c) <= Len(Neighbors(args.graph, c))

(* ---------------------------------------------------------------------- *)
(* /chat/stream: the history of a session                                 *)
(* ---------------------------------------------------------------------- *)
\* no stream met an exception of stream_answer
NoStreamFailed == \A r \in 1..MaxStreams : ~streams[r].failed

\* C28: under any interleaving of the requests of a session, the session's
\* list holds each user message immediately followed by the assistant
\* answer (users at the odd places, assistants at the even ones), and a
\* stream that reached its end marker has its answer in the list: the
\* assistant messages of a session are as many as its ended streams.
\* Stated for the runs where no stream failed.
C28_HistoryAlternates ==
    NoStreamFailed =>
        \A sid \in DOMAIN CHAT_STORE :
            LET h == CHAT_STORE[sid]
            IN /\ \A i \in DOMAIN h :
                      h[i].role = (IF i % 2 = 1 THEN "user" ELSE "assistant")
               /\ Cardinality({i \in DOMAIN h : h[i].role = "assistant"})
                    = Cardinality({r \in 1..MaxStreams :
                                      streams[r].st = "ended" /\ streams[r].sid = sid})

====
